---- MODULE Spec2Model ----
(***************************************************************************)
(* Native-side control layer of the Monight PDF viewer (src-tauri/src):    *)
(* file validation and loading (commands.rs), launch-argument and          *)
(* file-association ingestion (lib.rs), menu construction and menu event   *)
(* routing (menu.rs), and the singleton settings window (commands.rs).     *)
(*                                                                         *)
(* Strings the code inspects character by character (paths) are sequences  *)
(* of one-character strings.  Option<T> is a sequence of length <= 1.      *)
(***************************************************************************)
EXTENDS Integers, Sequences, FiniteSets, TLC

VARIABLES
    platform,       \* target_os the binary was built for
    cli,            \* parsed Cli { files, page }
    fs,             \* regular files that exist, by canonical path
    pc,             \* position of the setup closure / the application
    menu,           \* the installed application menu (<<>> = none)
    listener,       \* the tauri://file-open listener is registered
    windows,        \* label -> number of native windows with that label
    shown,          \* the main window has been shown
    frontendReady,  \* the webview of main has registered its event listeners
    sent,           \* the emit / open calls the last handler made
    requests,       \* every cli-open-files payload whose emit succeeded
    osPc,           \* per caller: position inside open_settings
    osResult,       \* per caller: outcome of its last open_settings
    reply,          \* result of the last file command
    dispatched      \* identifier of the last menu event handled ("" = none)

vars == << platform, cli, fs, pc, menu, listener, windows, shown,
           frontendReady, sent, requests, osPc, osResult, reply, dispatched >>

(***************************************************************************)
(* Bounds of the model.                                                    *)
(***************************************************************************)
MaxFiles == 2       \* longest launch argument list
MaxPage == 2        \* largest --page value tried (0..MaxPage)
MaxRequests == 2    \* cli-open-files emissions recorded

None == << >>
Some(x) == << x >>

(***************************************************************************)
(* Paths.                                                                  *)
(***************************************************************************)
Cwd == << "/", "d" >>
InDir(name) == Cwd \o << "/" >> \o name

A_PDF   == InDir(<< "a", ".", "p", "d", "f" >>)
B_TXT   == InDir(<< "b", ".", "t", "x", "t" >>)
C_UPPER == InDir(<< "c", ".", "P", "D", "F" >>)
E_XFDF  == InDir(<< "e", ".", "x", "f", "d", "f" >>)
NOEXT   == InDir(<< "n" >>)
DOTPDF  == InDir(<< ".", "p", "d", "f" >>)
L_PDF   == InDir(<< "l", ".", "p", "d", "f" >>)
REL_A   == << "a", ".", "p", "d", "f" >>
DOT_A   == InDir(<< ".", "/", "a", ".", "p", "d", "f" >>)

\* Directories that always exist.
Dirs == { << "/" >>, Cwd }

\* Symbolic links that always exist: /d/l.pdf -> /d/b.txt.
LinkTarget(p) == IF p = L_PDF THEN B_TXT ELSE p

RECURSIVE Segments(_)
Segments(s) ==
    IF \A i \in 1..Len(s) : s[i] # "/"
    THEN << s >>
    ELSE LET k == CHOOSE i \in 1..Len(s) :
                      s[i] = "/" /\ \A j \in 1..(i - 1) : s[j] # "/"
         IN  << SubSeq(s, 1, k - 1) >> \o Segments(SubSeq(s, k + 1, Len(s)))

\* std::path::Path::components, for paths without "..": empty and "."
\* segments are skipped.
Components(s) == SelectSeq(Segments(s), LAMBDA c : c # << >> /\ c # << "." >>)

IsAbsolute(s) == Len(s) > 0 /\ s[1] = "/"

RECURSIVE Join(_)
Join(comps) ==
    IF comps = << >> THEN << >>
    ELSE << "/" >> \o Head(comps) \o Join(Tail(comps))

\* std::path::Path::file_name
file_name(s) ==
    LET c == Components(s)
    IN  IF c = << >> \/ c[Len(c)] = << ".", "." >> THEN None
        ELSE Some(c[Len(c)])

\* std::path::Path::extension: the part of file_name after its last ".",
\* none when there is no "." or the only "." is the first character.
extension(s) ==
    LET fn == file_name(s)
    IN  IF fn = None THEN None
        ELSE LET name == fn[1]
                 dots == { i \in 1..Len(name) : name[i] = "." }
             IN  IF dots = {} THEN None
                 ELSE LET last == CHOOSE i \in dots : \A j \in dots : j <= i
                      IN  IF last = 1 THEN None
                          ELSE Some(SubSeq(name, last + 1, Len(name)))

\* The absolute, "."-free, link-free form of a path.
Resolve(s) ==
    LET comps == IF IsAbsolute(s) THEN Components(s)
                 ELSE Components(Cwd) \o Components(s)
        abs   == IF comps = << >> THEN << "/" >> ELSE Join(comps)
    IN  LinkTarget(abs)

\* std::path::Path::exists (follows links)
exists(s, files) == Resolve(s) \in files \cup Dirs

\* std::fs::canonicalize: Ok(canonical) only for an existing entry
canonicalize(s, files) ==
    IF exists(s, files) THEN Some(Resolve(s)) ELSE None

\* The extension allow-list of commands.rs:15 and lib.rs:67.
PDF  == << "p", "d", "f" >>
XDP  == << "x", "d", "p" >>
FDF  == << "f", "d", "f" >>
XFDF == << "x", "f", "d", "f" >>

AllowList == { PDF, XDP, FDF, XFDF }

\* Bytes of a regular file (b.txt is empty, every other file is not).
Content(f) == IF f = B_TXT THEN << >> ELSE << 37, 80, 68, 70 >>

(***************************************************************************)
(* commands.rs: read_pdf_file                                              *)
(***************************************************************************)
NotFound        == "File not found"
UnsupportedType == "Invalid file type"
IoError         == "Failed to read file"

Ok(bytes) == [tag |-> "Ok", error |-> "", bytes |-> bytes]
Err(e)    == [tag |-> "Err", error |-> e, bytes |-> << >>]

\* Faulty variant of validate: the extension is checked before existence.
validate_extension_first(path, files) ==
    IF extension(path) = None \/ extension(path)[1] \notin AllowList
    THEN UnsupportedType
    ELSE IF ~exists(path, files) THEN NotFound ELSE ""

\* Faulty variant of validate: the extension is compared without regard to
\* case.
LowerCase(ch) ==
    CASE ch = "P" -> "p" [] ch = "D" -> "d" [] ch = "F" -> "f"
      [] ch = "X" -> "x" [] OTHER -> ch
validate_ignoring_case(path, files) ==
    IF ~exists(path, files) THEN NotFound
    ELSE IF \/ extension(path) = None
            \/ [i \in 1..Len(extension(path)[1]) |->
                    LowerCase(extension(path)[1][i])] \notin AllowList
         THEN UnsupportedType
         ELSE ""

\* Faulty variant of validate: the existence check is missing.
validate_without_existence(path, files) ==
    IF extension(path) = None \/ extension(path)[1] \notin AllowList
    THEN UnsupportedType
    ELSE ""

\* commands.rs:8-17, the two validation steps in the order the code takes
\* them: "" when both pass, else the error returned.
validate(path, files) ==
    IF ~exists(path, files) THEN NotFound
    ELSE IF extension(path) = None \/ extension(path)[1] \notin AllowList
         THEN UnsupportedType
         ELSE ""

\* commands.rs:20, std::fs::read: a directory cannot be read, and a regular
\* file may fail to be read (permission, I/O fault, removed meanwhile).
fs_read(path, files) ==
    IF Resolve(path) \in files
    THEN { Ok(Content(Resolve(path))), Err(IoError) }
    ELSE { Err(IoError) }

read_pdf_file(path) ==
    /\ pc = "running"
    /\ frontendReady
    /\ \E r \in (IF validate(path, fs) # ""
                 THEN { Err(validate(path, fs)) }
                 ELSE fs_read(path, fs)) :
           reply' = [cmd |-> "read_pdf_file", path |-> path, result |-> r]
    /\ UNCHANGED << platform, dispatched, cli, fs, pc, menu, listener, windows, shown,
                    frontendReady, sent, requests, osPc, osResult >>

(***************************************************************************)
(* commands.rs: get_file_name, get_file_directory                          *)
(***************************************************************************)
\* Length of what precedes the body of a path: the root "/", or a leading
\* "." of a relative path (std::path::Components).
LenBeforeBody(s) ==
    IF Len(s) >= 1 /\ s[1] = "/" THEN 1
    ELSE IF s = << "." >> \/ (Len(s) >= 2 /\ s[1] = "." /\ s[2] = "/")
         THEN 1
         ELSE 0

\* Position of the last "/" of the body of s, or b when it has none.
LastSep(s, b) ==
    LET seps == { i \in (b + 1)..Len(s) : s[i] = "/" }
    IN  IF seps = {} THEN b
        ELSE CHOOSE i \in seps : \A j \in seps : j <= i

\* s without the last segment of its body and the separator before it.
DropLast(s, b) ==
    SubSeq(s, 1, IF LastSep(s, b) > b THEN LastSep(s, b) - 1 ELSE b)

\* std::path::Components::as_path, at the back: trailing separators and
\* "." segments are not components and are cut off.
RECURSIVE TrimRight(_, _)
TrimRight(s, b) ==
    IF Len(s) <= b THEN s
    ELSE LET seg == SubSeq(s, LastSep(s, b) + 1, Len(s))
         IN  IF seg = << >> \/ seg = << "." >>
             THEN TrimRight(DropLast(s, b), b)
             ELSE s

\* std::path::Path::parent: the path without its last component; none for
\* the root and for the empty path.
parent(s) ==
    LET b == LenBeforeBody(s)
        t == TrimRight(s, b)
    IN  IF Len(t) > b THEN Some(TrimRight(DropLast(t, b), b))
        ELSE IF b = 1 /\ s[1] = "." THEN Some(<< >>)
        ELSE None

UNKNOWN == << "U", "n", "k", "n", "o", "w", "n" >>

\* A String returned by a command.
Str(chars) == [tag |-> "String", error |-> "", bytes |-> chars]

\* commands.rs:26-30
get_file_name_result(path) ==
    IF file_name(path) = None THEN UNKNOWN ELSE file_name(path)[1]

\* Faulty variant of get_file_directory_result: the fallback of
\* get_file_name is used.
get_file_directory_result_unknown(path) ==
    IF parent(path) = None THEN UNKNOWN ELSE parent(path)[1]

\* commands.rs:36-40
get_file_directory_result(path) ==
    IF parent(path) = None THEN << >> ELSE parent(path)[1]

get_file_name(path) ==
    /\ pc = "running"
    /\ frontendReady
    /\ reply' = [cmd |-> "get_file_name", path |-> path,
                 result |-> Str(get_file_name_result(path))]
    /\ UNCHANGED << platform, dispatched, cli, fs, pc, menu, listener, windows, shown,
                    frontendReady, sent, requests, osPc, osResult >>

get_file_directory(path) ==
    /\ pc = "running"
    /\ frontendReady
    /\ reply' = [cmd |-> "get_file_directory", path |-> path,
                 result |-> Str(get_file_directory_result(path))]
    /\ UNCHANGED << platform, dispatched, cli, fs, pc, menu, listener, windows, shown,
                    frontendReady, sent, requests, osPc, osResult >>

(***************************************************************************)
(* The filesystem changes under the program (environment).                 *)
(***************************************************************************)
fs_create(f) ==
    /\ pc = "running"
    /\ f \notin fs
    /\ fs' = fs \cup { f }
    /\ UNCHANGED << platform, dispatched, cli, pc, menu, listener, windows, shown,
                    frontendReady, sent, requests, osPc, osResult, reply >>

fs_remove(f) ==
    /\ pc = "running"
    /\ f \in fs
    /\ fs' = fs \ { f }
    /\ UNCHANGED << platform, dispatched, cli, pc, menu, listener, windows, shown,
                    frontendReady, sent, requests, osPc, osResult, reply >>

(***************************************************************************)
(* menu.rs: create_menu                                                    *)
(***************************************************************************)
MenuItem(id, text, accel) ==
    [kind |-> "item", id |-> id, text |-> text, enabled |-> TRUE,
     accel |-> accel]
PredefinedMenuItem(what) ==
    [kind |-> "predefined", id |-> "", text |-> what, enabled |-> TRUE,
     accel |-> None]
Submenu(text, items) == [text |-> text, enabled |-> TRUE, items |-> items]

\* menu.rs:15-27 (target_os = "macos")
file_menu ==
    Submenu("File", <<
        MenuItem("open", "Open...", Some("CmdOrCtrl+O")),
        MenuItem("print", "Print", Some("CmdOrCtrl+P")),
        PredefinedMenuItem("separator"),
        MenuItem("settings", "Settings...", Some("Cmd+,")),
        PredefinedMenuItem("separator"),
        PredefinedMenuItem("close_window") >>)

\* menu.rs:100-114 (not target_os = "macos")
file_menu_with_settings ==
    Submenu("File", <<
        MenuItem("open", "Open...", Some("CmdOrCtrl+O")),
        MenuItem("print", "Print", Some("CmdOrCtrl+P")),
        PredefinedMenuItem("separator"),
        MenuItem("settings", "Settings", Some("Alt+S")),
        PredefinedMenuItem("separator"),
        PredefinedMenuItem("close_window") >>)

\* menu.rs:117-130, and the same text at 30-43
edit_menu ==
    Submenu("Edit", <<
        PredefinedMenuItem("undo"),
        PredefinedMenuItem("redo"),
        PredefinedMenuItem("separator"),
        PredefinedMenuItem("cut"),
        PredefinedMenuItem("copy"),
        PredefinedMenuItem("paste"),
        PredefinedMenuItem("select_all") >>)

\* menu.rs:133-144, and the same text at 46-57
view_menu ==
    Submenu("View", <<
        MenuItem("zoom_in", "Zoom In", Some("CmdOrCtrl+Plus")),
        MenuItem("zoom_out", "Zoom Out", Some("CmdOrCtrl+-")),
        MenuItem("reset_zoom", "Reset Zoom", Some("CmdOrCtrl+0")),
        PredefinedMenuItem("separator"),
        MenuItem("toggle_fullscreen", "Toggle Fullscreen", Some("F11")) >>)

\* menu.rs:147-157, and the same text at 60-70
window_menu ==
    Submenu("Window", <<
        MenuItem("close_tab", "Close Tab", Some("CmdOrCtrl+W")),
        PredefinedMenuItem("separator"),
        PredefinedMenuItem("minimize"),
        PredefinedMenuItem("maximize") >>)

\* menu.rs:160-170, and the same text at 73-83
help_menu ==
    Submenu("Help", <<
        MenuItem("learn_more", "Learn More", None),
        MenuItem("license", "License", None),
        MenuItem("bugs", "Report Bug", None),
        MenuItem("contact", "Contact", None) >>)

\* Faulty variant of create_menu: on macOS the File submenu loses its
\* settings entry.
create_menu_settings_dropped(target_os) ==
    IF target_os = "macos"
    THEN << [file_menu EXCEPT
                 !.items = SelectSeq(file_menu.items,
                                     LAMBDA it : it.id # "settings")],
            edit_menu, view_menu, window_menu, help_menu >>
    ELSE << file_menu_with_settings, edit_menu, view_menu, window_menu,
            help_menu >>

create_menu(target_os) ==
    IF target_os = "macos"
    THEN << file_menu, edit_menu, view_menu, window_menu, help_menu >>
    ELSE << file_menu_with_settings, edit_menu, view_menu, window_menu,
            help_menu >>

\* The identifiers of the action items of submenu sm / of menu m.
SubmenuIds(sm) ==
    { sm.items[i].id : i \in { j \in 1..Len(sm.items) :
                                   sm.items[j].kind = "item" } }
MenuIds(m) == UNION { SubmenuIds(m[i]) : i \in 1..Len(m) }

\* How many action items of menu m carry identifier id.
Occurrences(m, id) ==
    Cardinality({ << i, j >> \in (1..Len(m)) \X (1..7) :
                      /\ j <= Len(m[i].items)
                      /\ m[i].items[j].kind = "item"
                      /\ m[i].items[j].id = id })

(***************************************************************************)
(* Events to the main window.  An emitted event reaches the presentation   *)
(* layer only if its listeners are registered at that moment; otherwise it *)
(* is dropped.                                                             *)
(***************************************************************************)
Emitted(name) == [kind |-> "emit", name |-> name]
Opened(url)   == [kind |-> "open", name |-> url]

CliPayload(src, files, page) ==
    [src |-> src, files |-> files, page |-> page,
     deliveries |-> IF frontendReady /\ windows["main"] > 0 THEN 1 ELSE 0]

(***************************************************************************)
(* lib.rs: the setup closure, in four steps.                               *)
(***************************************************************************)
Platforms == { "macos", "windows", "linux" }
Callers == { "menu", "invoke" }

\* lib.rs:47-52: the menu is created and installed, or setup fails.
SetupMenu ==
    /\ pc = "menu"
    /\ \E ok \in BOOLEAN :
           IF ok THEN /\ menu' = create_menu(platform)
                      /\ pc' = "listen"
                 ELSE /\ menu' = menu
                      /\ pc' = "abort_menu"
    /\ UNCHANGED << platform, dispatched, cli, fs, listener, windows, shown,
                    frontendReady, sent, requests, osPc, osResult, reply >>

\* lib.rs:56-77: the file-open listener exists on macOS, iOS and Windows.
SetupListen ==
    /\ pc = "listen"
    /\ listener' = (platform \in { "macos", "ios", "windows" })
    /\ pc' = "cli"
    /\ UNCHANGED << platform, dispatched, cli, fs, menu, windows, shown,
                    frontendReady, sent, requests, osPc, osResult, reply >>

\* Faulty variant of valid_files: survivors are collected in reverse order.
RECURSIVE valid_files_reversed(_, _)
valid_files_reversed(files, fsys) ==
    IF files = << >> THEN << >>
    ELSE LET canonical == canonicalize(Head(files), fsys)
             rest      == valid_files_reversed(Tail(files), fsys)
         IN  IF canonical # None /\ exists(canonical[1], fsys)
             THEN rest \o << canonical[1] >>
             ELSE rest

\* Faulty variant of valid_files: the argument is kept as given, not in its
\* canonical form.
RECURSIVE valid_files_raw(_, _)
valid_files_raw(files, fsys) ==
    IF files = << >> THEN << >>
    ELSE LET canonical == canonicalize(Head(files), fsys)
             rest      == valid_files_raw(Tail(files), fsys)
         IN  IF canonical # None /\ exists(canonical[1], fsys)
             THEN << Head(files) >> \o rest
             ELSE rest

\* Faulty variant of valid_files: an argument that does not canonicalize is
\* kept resolved against the working directory instead of being skipped.
RECURSIVE valid_files_unfiltered(_, _)
valid_files_unfiltered(files, fsys) ==
    IF files = << >> THEN << >>
    ELSE << Resolve(Head(files)) >>
             \o valid_files_unfiltered(Tail(files), fsys)

\* lib.rs:82-95: the arguments that canonicalize and exist, canonical, in
\* argument order.
RECURSIVE valid_files(_, _)
valid_files(files, fsys) ==
    IF files = << >> THEN << >>
    ELSE LET canonical == canonicalize(Head(files), fsys)
             rest      == valid_files(Tail(files), fsys)
         IN  IF canonical # None /\ exists(canonical[1], fsys)
             THEN << canonical[1] >> \o rest
             ELSE rest

\* lib.rs:101: the page of the payload.
payload_page(c) == c.page

\* lib.rs:79-110: emit the launch request; an emit error ends setup ("?").
SetupCli ==
    /\ pc = "cli"
    /\ IF cli.files # << >> /\ valid_files(cli.files, fs) # << >>
       THEN \E ok \in BOOLEAN :
                IF ok
                THEN /\ requests' = Append(requests,
                            CliPayload("cli", valid_files(cli.files, fs),
                                       payload_page(cli)))
                     /\ sent' = << Emitted("cli-open-files") >>
                     /\ pc' = "show"
                ELSE /\ requests' = requests
                     /\ sent' = << Emitted("cli-open-files") >>
                     /\ pc' = "abort_emit"
       ELSE /\ UNCHANGED << requests, sent >>
            /\ pc' = "show"
    /\ UNCHANGED << platform, dispatched, cli, fs, menu, listener, windows, shown,
                    frontendReady, osPc, osResult, reply >>

\* lib.rs:113-119: show the main window (unwrap: a failure panics).
SetupShow ==
    /\ pc = "show"
    /\ \E ok \in BOOLEAN :
           IF ok THEN /\ shown' = TRUE
                      /\ pc' = "running"
                 ELSE /\ shown' = shown
                      /\ pc' = "abort_show"
    /\ UNCHANGED << platform, dispatched, cli, fs, menu, listener, windows,
                    frontendReady, sent, requests, osPc, osResult, reply >>

Aborted == pc \in { "abort_menu", "abort_emit", "abort_show" }

\* The presentation layer finishes loading and registers its listeners
\* (environment; nothing in the core waits for it).
FrontendListen ==
    /\ ~Aborted
    /\ ~frontendReady
    /\ windows["main"] > 0
    /\ frontendReady' = TRUE
    /\ UNCHANGED << platform, dispatched, cli, fs, pc, menu, listener, windows, shown,
                    sent, requests, osPc, osResult, reply >>

\* Faulty variant of supported: every extension is accepted.
supported_any(canonical) == TRUE

\* lib.rs:66-67: the extension of the canonical path is in the allow-list.
supported(canonical) ==
    /\ extension(canonical) # None
    /\ extension(canonical)[1] \in AllowList

\* lib.rs:59-76: the tauri://file-open handler.  The result of emit is
\* dropped ("let _ ="): a failed emit delivers nothing and is not reported.
file_open(file_path) ==
    /\ pc = "running"
    /\ listener
    /\ Len(requests) < MaxRequests
    /\ LET canonical == canonicalize(file_path, fs)
       IN  IF /\ canonical # None
              /\ exists(canonical[1], fs)
              /\ supported(canonical[1])
           THEN \E ok \in BOOLEAN :
                    IF ok
                    THEN /\ requests' = Append(requests,
                                CliPayload("file-open", << canonical[1] >>,
                                           None))
                         /\ sent' = << Emitted("cli-open-files") >>
                    ELSE /\ requests' = requests
                         /\ sent' = << Emitted("cli-open-files") >>
           ELSE /\ requests' = requests
                /\ sent' = << >>
    /\ UNCHANGED << platform, dispatched, cli, fs, pc, menu, listener, windows, shown,
                    frontendReady, osPc, osResult, reply >>

(***************************************************************************)
(* commands.rs: open_settings, one step per call into the window toolkit.  *)
(* It runs on the main thread when the menu dispatches it (block_on) and   *)
(* on the async runtime when the presentation layer invokes the command.   *)
(***************************************************************************)
\* Faulty variant of settings_exists: the existing window is never seen.
settings_exists_never(w) == FALSE

\* commands.rs:47: get_webview_window("settings") is Some
settings_exists(w) == w["settings"] > 0

\* commands.rs:47-50: focus the existing window, or go on to create one.
open_settings_check(c) ==
    IF settings_exists(windows)
    THEN /\ \E ok \in BOOLEAN :
                osResult' = [osResult EXCEPT
                                ![c] = IF ok THEN "focused" ELSE "err_focus"]
         /\ UNCHANGED << osPc, windows >>
    ELSE /\ osPc' = [osPc EXCEPT ![c] = "get_main"]
         /\ osResult' = [osResult EXCEPT ![c] = "none"]
         /\ UNCHANGED windows

\* Faulty variant of open_settings_main: the window is built without
\* looking for the main window.
open_settings_main_unchecked(c) ==
    /\ osPc[c] = "get_main"
    /\ osPc' = [osPc EXCEPT ![c] = "build"]
    /\ UNCHANGED << platform, dispatched, cli, fs, pc, menu, listener,
                    windows, shown, frontendReady, sent, requests, reply,
                    osResult >>

\* commands.rs:53: the main window is the parent, or "Main window not found".
open_settings_main(c) ==
    /\ osPc[c] = "get_main"
    /\ IF windows["main"] > 0
       THEN /\ osPc' = [osPc EXCEPT ![c] = "build"]
            /\ UNCHANGED osResult
       ELSE /\ osPc' = [osPc EXCEPT ![c] = "idle"]
            /\ osResult' = [osResult EXCEPT ![c] = "err_main"]
    /\ UNCHANGED << platform, dispatched, cli, fs, pc, menu, listener, windows, shown,
                    frontendReady, sent, requests, reply >>

\* commands.rs:63-71: build the window.  By the toolkit's contract a window
\* label is unique: build fails when the label is in use
\* (tauri::Error::WindowLabelAlreadyExists).  It also fails when the parent
\* is gone, and may fail for reasons of its own.
open_settings_build(c) ==
    /\ osPc[c] = "build"
    /\ osPc' = [osPc EXCEPT ![c] = "idle"]
    /\ IF windows["settings"] > 0 \/ windows["main"] = 0
       THEN /\ osResult' = [osResult EXCEPT ![c] = "err_build"]
            /\ UNCHANGED windows
       ELSE \E ok \in BOOLEAN :
                IF ok
                THEN /\ windows' = [windows EXCEPT
                                        !["settings"] = windows["settings"] + 1]
                     /\ osResult' = [osResult EXCEPT ![c] = "created"]
                ELSE /\ osResult' = [osResult EXCEPT ![c] = "err_build"]
                     /\ UNCHANGED windows
    /\ UNCHANGED << platform, dispatched, cli, fs, pc, menu, listener, shown,
                    frontendReady, sent, requests, reply >>

\* lib.rs:42: the presentation layer invokes the async command.
invoke_open_settings ==
    /\ ~Aborted
    /\ frontendReady
    /\ osPc["invoke"] = "idle"
    /\ open_settings_check("invoke")
    /\ UNCHANGED << platform, dispatched, cli, fs, pc, menu, listener, shown,
                    frontendReady, sent, requests, reply >>

(***************************************************************************)
(* menu.rs: handle_menu_event                                              *)
(***************************************************************************)
\* Faulty variant of MenuRoute: the "contact" case is missing.
MenuRoute_contact_missing(event_id) ==
    CASE event_id = "open"     -> [kind |-> "emit", arg |-> "menu-open"]
      [] event_id = "print"    -> [kind |-> "emit", arg |-> "menu-print"]
      [] event_id = "settings" -> [kind |-> "settings", arg |-> ""]
      [] event_id = "zoom_in"  -> [kind |-> "emit", arg |-> "menu-zoom-in"]
      [] event_id = "zoom_out" -> [kind |-> "emit", arg |-> "menu-zoom-out"]
      [] event_id = "reset_zoom" ->
             [kind |-> "emit", arg |-> "menu-reset-zoom"]
      [] event_id = "toggle_fullscreen" ->
             [kind |-> "emit", arg |-> "menu-toggle-fullscreen"]
      [] event_id = "close_tab" ->
             [kind |-> "emit", arg |-> "menu-close-tab"]
      [] event_id = "learn_more" ->
             [kind |-> "open",
              arg |-> "https://github.com/yourusername/yourrepo"]
      [] event_id = "license" ->
             [kind |-> "open",
              arg |-> "https://github.com/yourusername/yourrepo/blob/master/LICENSE"]
      [] event_id = "bugs" ->
             [kind |-> "open",
              arg |-> "https://github.com/yourusername/yourrepo/issues"]
      [] OTHER -> [kind |-> "none", arg |-> ""]

\* Faulty variant of MenuRoute: zoom_in and zoom_out emit each other's
\* event.
MenuRoute_zoom_swapped(event_id) ==
    CASE event_id = "zoom_in"  -> [kind |-> "emit", arg |-> "menu-zoom-out"]
      [] event_id = "zoom_out" -> [kind |-> "emit", arg |-> "menu-zoom-in"]
      [] event_id = "contact"  ->
             [kind |-> "open", arg |-> "mailto:your-email@example.com"]
      [] OTHER -> MenuRoute_contact_missing(event_id)

\* Faulty variant of MenuRoute: an identifier without a case opens the
\* project page.
MenuRoute_unknown_opens(event_id) ==
    CASE event_id = "contact"  ->
             [kind |-> "open", arg |-> "mailto:your-email@example.com"]
      [] MenuRoute_contact_missing(event_id).kind = "none" ->
             [kind |-> "open",
              arg |-> "https://github.com/yourusername/yourrepo"]
      [] OTHER -> MenuRoute_contact_missing(event_id)

\* Faulty variant of MenuRoute: "settings" is forwarded to the main window
\* as an event, like the other items of the File menu.
MenuRoute_settings_emits(event_id) ==
    CASE event_id = "settings" -> [kind |-> "emit", arg |-> "menu-settings"]
      [] event_id = "contact"  ->
             [kind |-> "open", arg |-> "mailto:your-email@example.com"]
      [] OTHER -> MenuRoute_contact_missing(event_id)

\* menu.rs:187-251: the match on event_id.
MenuRoute(event_id) ==
    CASE event_id = "open"     -> [kind |-> "emit", arg |-> "menu-open"]
      [] event_id = "print"    -> [kind |-> "emit", arg |-> "menu-print"]
      [] event_id = "settings" -> [kind |-> "settings", arg |-> ""]
      [] event_id = "zoom_in"  -> [kind |-> "emit", arg |-> "menu-zoom-in"]
      [] event_id = "zoom_out" -> [kind |-> "emit", arg |-> "menu-zoom-out"]
      [] event_id = "reset_zoom" ->
             [kind |-> "emit", arg |-> "menu-reset-zoom"]
      [] event_id = "toggle_fullscreen" ->
             [kind |-> "emit", arg |-> "menu-toggle-fullscreen"]
      [] event_id = "close_tab" ->
             [kind |-> "emit", arg |-> "menu-close-tab"]
      [] event_id = "learn_more" ->
             [kind |-> "open",
              arg |-> "https://github.com/yourusername/yourrepo"]
      [] event_id = "license" ->
             [kind |-> "open",
              arg |-> "https://github.com/yourusername/yourrepo/blob/master/LICENSE"]
      [] event_id = "bugs" ->
             [kind |-> "open",
              arg |-> "https://github.com/yourusername/yourrepo/issues"]
      [] event_id = "contact" ->
             [kind |-> "open", arg |-> "mailto:your-email@example.com"]
      [] OTHER -> [kind |-> "none", arg |-> ""]

\* Identifiers the native menu layer can report: the action items of the
\* installed menu, and two that the router has no case for.
UnknownIds == { "unknown-id", "Open" }
EventIds == MenuIds(menu) \cup UnknownIds

\* lib.rs:121-123 and menu.rs:186-252, on the main thread.
handle_menu_event(event_id) ==
    /\ pc = "running"
    /\ osPc["menu"] = "idle"
    /\ LET r == MenuRoute(event_id)
       IN  CASE r.kind = "emit" ->
                    /\ sent' = IF windows["main"] > 0
                               THEN << Emitted(r.arg) >> ELSE << >>
                    /\ UNCHANGED << windows, osPc, osResult >>
             [] r.kind = "open" ->
                    /\ sent' = << Opened(r.arg) >>
                    /\ UNCHANGED << windows, osPc, osResult >>
             [] r.kind = "settings" ->
                    /\ sent' = << >>
                    /\ open_settings_check("menu")
             [] OTHER ->
                    /\ sent' = << >>
                    /\ UNCHANGED << windows, osPc, osResult >>
    /\ dispatched' = event_id
    /\ UNCHANGED << platform, cli, fs, pc, menu, listener, shown,
                    frontendReady, requests, reply >>

(***************************************************************************)
(* commands.rs: set_print_enabled                                          *)
(***************************************************************************)
\* Faulty variant of set_enabled: every item of the submenu that holds the
\* identifier is changed.
set_enabled_whole_submenu(m, id, enabled) ==
    [i \in DOMAIN m |->
        IF id \in SubmenuIds(m[i])
        THEN [m[i] EXCEPT !.items =
                 [j \in DOMAIN m[i].items |->
                     [m[i].items[j] EXCEPT !.enabled = enabled]]]
        ELSE m[i]]

\* commands.rs:80-82: the action item with the identifier gets the flag.
set_enabled(m, id, enabled) ==
    [i \in DOMAIN m |->
        [m[i] EXCEPT !.items =
            [j \in DOMAIN m[i].items |->
                IF m[i].items[j].kind = "item" /\ m[i].items[j].id = id
                THEN [m[i].items[j] EXCEPT !.enabled = enabled]
                ELSE m[i].items[j]]]]

\* commands.rs:78-86.  Without a menu nothing happens.  Whether the lookup
\* by identifier finds the item, and whether the toolkit then applies the
\* flag, is the toolkit's: both outcomes are allowed.  The command answers
\* Ok(()) in every case.
set_print_enabled(enabled) ==
    /\ ~Aborted
    /\ frontendReady
    /\ IF menu = << >>
       THEN menu' = menu
       ELSE \E resolved \in BOOLEAN :
                menu' = IF resolved THEN set_enabled(menu, "print", enabled)
                        ELSE menu
    /\ reply' = [cmd |-> "set_print_enabled", path |-> << >>,
                 result |-> Ok(<< >>)]
    /\ UNCHANGED << platform, dispatched, cli, fs, pc, listener, windows,
                    shown, frontendReady, sent, requests, osPc, osResult >>

(***************************************************************************)
(* The user closes a window (environment, handled on the main thread).     *)
(***************************************************************************)
close_settings ==
    /\ pc = "running"
    /\ osPc["menu"] = "idle"
    /\ windows["settings"] > 0
    /\ windows' = [windows EXCEPT !["settings"] = 0]
    /\ UNCHANGED << platform, dispatched, cli, fs, pc, menu, listener, shown,
                    frontendReady, sent, requests, osPc, osResult, reply >>

close_main ==
    /\ pc = "running"
    /\ osPc["menu"] = "idle"
    /\ windows["main"] > 0
    /\ windows' = [windows EXCEPT !["main"] = 0]
    /\ frontendReady' = FALSE
    /\ UNCHANGED << platform, dispatched, cli, fs, pc, menu, listener, shown,
                    sent, requests, osPc, osResult, reply >>

(***************************************************************************)
(* Specifications.                                                         *)
(***************************************************************************)
NoReply == [cmd |-> "none", path |-> << >>, result |-> Err("")]

\* State after construction, before the setup closure runs: the main
\* window exists (tauri.conf.json), hidden; no menu; nothing emitted.
InitApp ==
    /\ pc = "menu"
    /\ menu = << >>
    /\ listener = FALSE
    /\ windows = [main |-> 1, settings |-> 0]
    /\ shown = FALSE
    /\ frontendReady = FALSE
    /\ sent = << >>
    /\ requests = << >>
    /\ osPc = [c \in Callers |-> "idle"]
    /\ osResult = [c \in Callers |-> "none"]
    /\ reply = NoReply
    /\ dispatched = ""

Setup == SetupMenu \/ SetupListen \/ SetupCli \/ SetupShow

\* Launch arguments and the files they may name.
LaunchFiles == { A_PDF, B_TXT }
LaunchArgs == { REL_A, B_TXT, L_PDF }
ArgLists == UNION { [1..n -> LaunchArgs] : n \in 0..MaxFiles }
Pages == { None } \cup { Some(n) : n \in 0..MaxPage }

\* Startup and file association.
Init ==
    /\ platform \in Platforms
    /\ cli \in [files : ArgLists, page : Pages]
    /\ fs \in SUBSET LaunchFiles
    /\ InitApp

Next ==
    \/ Setup
    \/ FrontendListen
    \/ \E p \in LaunchArgs : file_open(p)
    \/ \E f \in LaunchFiles : fs_create(f)
    \/ \E f \in LaunchFiles : fs_remove(f)

Spec == Init /\ [][Next]_vars

\* Menu dispatch and the settings window, after a launch without arguments.
InitWin ==
    /\ platform \in Platforms
    /\ cli = [files |-> << >>, page |-> None]
    /\ fs = { A_PDF }
    /\ InitApp

NextWin ==
    \/ Setup
    \/ FrontendListen
    \/ \E id \in EventIds : handle_menu_event(id)
    \/ invoke_open_settings
    \/ \E c \in Callers : open_settings_main(c)
    \/ \E c \in Callers : open_settings_build(c)
    \/ \E e \in BOOLEAN : set_print_enabled(e)
    \/ close_settings
    \/ close_main

SpecWin == InitWin /\ [][NextWin]_vars

\* File commands of a running application.
FilePaths == { A_PDF, B_TXT, C_UPPER, E_XFDF, NOEXT, DOTPDF, L_PDF, REL_A,
               DOT_A, Cwd }
Files == { A_PDF, B_TXT, C_UPPER, E_XFDF, NOEXT, DOTPDF }

InitFile ==
    /\ platform = "linux"
    /\ cli = [files |-> << >>, page |-> None]
    /\ fs \in SUBSET Files
    /\ pc = "running"
    /\ menu = create_menu(platform)
    /\ listener = FALSE
    /\ windows = [main |-> 1, settings |-> 0]
    /\ shown = TRUE
    /\ frontendReady = TRUE
    /\ sent = << >>
    /\ requests = << >>
    /\ osPc = [c \in Callers |-> "idle"]
    /\ osResult = [c \in Callers |-> "none"]
    /\ reply = NoReply
    /\ dispatched = ""

\* Paths given to get_file_name and get_file_directory.
ROOT     == << "/" >>
EMPTY    == << >>
DIR_SLASH == Cwd \o << "/" >>
DOTDOT   == << ".", "." >>
DEEP     == << "/", "a", "/", "b", "/", "d", "o", "c", ".", "p", "d", "f" >>
DOT_REL  == << ".", "/", "a", ".", "p", "d", "f" >>
NamePaths == { A_PDF, REL_A, DOT_A, ROOT, EMPTY, DIR_SLASH, DOTDOT, DEEP,
               DOT_REL, NOEXT }

NextFile ==
    \/ \E p \in FilePaths : read_pdf_file(p)
    \/ \E p \in NamePaths : get_file_name(p)
    \/ \E p \in NamePaths : get_file_directory(p)
    \/ \E f \in Files : fs_create(f)
    \/ \E f \in Files : fs_remove(f)

SpecFile == InitFile /\ [][NextFile]_vars

(***************************************************************************)
(* Properties.                                                             *)
(***************************************************************************)
Range(seq) == { seq[i] : i \in 1..Len(seq) }

\* C1: at most one window labeled "settings" ever exists, and an
\* open_settings invocation (menu dispatch of "settings" or the invoked
\* command) that starts while a "settings" window exists only focuses it:
\* it changes no window and does not go on towards creating one.
C1_SettingsSingleton ==
    /\ [](windows["settings"] <= 1)
    /\ [][ \A c \in Callers :
             ( /\ windows["settings"] > 0
               /\ IF c = "menu" THEN handle_menu_event("settings")
                                ELSE invoke_open_settings )
             => ( /\ windows' = windows
                  /\ osPc' = osPc
                  /\ osResult'[c] \in { "focused", "err_focus" } ) ]_vars

\* C1 witness: a settings window exists and both callers, invoked while it
\* existed, focused it.
C1_Witness ==
    /\ windows["settings"] = 1
    /\ osResult["menu"] = "focused"
    /\ osResult["invoke"] = "focused"

BadExtension(p) == extension(p) = None \/ extension(p)[1] \notin AllowList

\* C2 (as stated): a path whose extension is absent or outside the
\* allow-list is answered with UnsupportedType, whether or not it exists.
C2_UnsupportedRegardless ==
    (reply.cmd = "read_pdf_file" /\ BadExtension(reply.path))
        => reply.result = Err(UnsupportedType)

\* C2 (amended): a path whose extension is absent or outside the allow-list
\* is answered with UnsupportedType if it exists when read_pdf_file runs,
\* and with NotFound if it does not.
C2_UnsupportedIfExists ==
    [][ ( /\ reply' # reply
          /\ reply'.cmd = "read_pdf_file"
          /\ BadExtension(reply'.path) )
        => reply'.result = IF exists(reply'.path, fs)
                           THEN Err(UnsupportedType)
                           ELSE Err(NotFound) ]_vars

\* C2 witness: an existing file with an extension outside the allow-list was
\* rejected as unsupported.
C2_Witness ==
    /\ reply.cmd = "read_pdf_file"
    /\ reply.path = B_TXT
    /\ B_TXT \in fs
    /\ reply.result = Err(UnsupportedType)

\* The launch arguments that canonicalize and exist, and their canonical
\* forms, in argument order.
Survivors == SelectSeq(cli.files, LAMBDA a : canonicalize(a, fs) # None)
SurvivorPaths == [i \in 1..Len(Survivors) |-> Resolve(Survivors[i])]

\* C3: when launch-argument processing has finished, the request emitted
\* holds exactly the surviving arguments in argument order together with
\* the page option, and there is a request if and only if a file survives.
C3_LaunchRequest ==
    pc = "show" =>
        IF Survivors = << >>
        THEN requests = << >>
        ELSE /\ Len(requests) = 1
             /\ requests[1].src = "cli"
             /\ requests[1].files = SurvivorPaths
             /\ requests[1].page = cli.page

\* C3 witness: two arguments, one of them missing, and page 1: the request
\* holds the one surviving file and the page.
C3_Witness ==
    /\ pc = "show"
    /\ Len(cli.files) = 2
    /\ Len(requests) = 1
    /\ Len(requests[1].files) = 1
    /\ requests[1].page = Some(1)

\* C4: every request emitted from the launch arguments reaches the
\* presentation layer exactly once.
C4_LaunchRequestDelivered ==
    \A i \in 1..Len(requests) :
        requests[i].src = "cli" => requests[i].deliveries = 1

HasSettings(sm) == "settings" \in SubmenuIds(sm)
IsAppSubmenu(sm) ==
    \E j \in 1..Len(sm.items) :
        /\ sm.items[j].kind = "predefined"
        /\ sm.items[j].text \in { "about", "services", "hide", "quit" }
AppSubmenus(m) == { i \in 1..Len(m) : IsAppSubmenu(m[i]) }
FileSubmenus(m) == { i \in 1..Len(m) : m[i].text = "File" }

\* C5 (as stated): on macOS an application-identity submenu holds the
\* settings action and File does not; elsewhere there is no such submenu
\* and File holds it; settings occurs exactly once.
C5_PlatformPlacement ==
    menu # << >> =>
        /\ platform = "macos" =>
               /\ \E i \in AppSubmenus(menu) : HasSettings(menu[i])
               /\ \A i \in FileSubmenus(menu) : ~HasSettings(menu[i])
        /\ platform # "macos" =>
               /\ AppSubmenus(menu) = {}
               /\ \E i \in FileSubmenus(menu) : HasSettings(menu[i])
        /\ Occurrences(menu, "settings") = 1

\* C5 (amended): on every platform there is no application-identity
\* submenu and the File submenu holds the settings action, which occurs
\* exactly once; the platforms differ in its label and shortcut only.
C5_SettingsInFile ==
    menu # << >> =>
        /\ AppSubmenus(menu) = {}
        /\ \E i \in FileSubmenus(menu) :
               \E j \in 1..Len(menu[i].items) :
                   /\ menu[i].items[j].kind = "item"
                   /\ menu[i].items[j].id = "settings"
                   /\ menu[i].items[j].accel =
                          IF platform = "macos" THEN Some("Cmd+,")
                          ELSE Some("Alt+S")
        /\ Occurrences(menu, "settings") = 1

\* C5 witness: the menu of a macOS build is installed.
C5_Witness == platform = "macos" /\ menu # << >> /\ pc = "listen"

\* C6: the page of an emitted request, if present, is at least 1.
C6_PagePositive ==
    \A i \in 1..Len(requests) :
        requests[i].page # None => requests[i].page[1] >= 1

\* C7 (as stated): at emission, the files of a request are not empty and
\* each exists, is canonical and has an allow-listed extension.
C7_FilesValidated ==
    [][ requests' # requests =>
          LET r == requests'[Len(requests')]
          IN  /\ r.files # << >>
              /\ \A path \in Range(r.files) :
                     /\ exists(path, fs)
                     /\ Resolve(path) = path
                     /\ ~BadExtension(path) ]_vars

\* C7 (amended): at emission, the files of a request are not empty and each
\* exists and is canonical; the extension is allow-listed in requests from
\* file association, and unchecked in requests from launch arguments.
C7_FilesExistCanonical ==
    [][ requests' # requests =>
          LET r == requests'[Len(requests')]
          IN  /\ r.files # << >>
              /\ \A path \in Range(r.files) :
                     /\ exists(path, fs)
                     /\ Resolve(path) = path
                     /\ r.src = "file-open" => ~BadExtension(path) ]_vars

\* C7 witness: a launch request holding a file outside the allow-list, and
\* a file-association request after it.
C7_Witness ==
    /\ Len(requests) = 2
    /\ requests[1].src = "cli"
    /\ B_TXT \in Range(requests[1].files)
    /\ requests[2].src = "file-open"

\* C8: launch-argument processing never ends startup.
C8_LaunchNeverFatal == pc # "abort_emit"

\* C9: two executions of open_settings are never both past the existence
\* check and before the end of window creation.
C9_NoInterleaving ==
    ~(osPc["menu"] # "idle" /\ osPc["invoke"] # "idle")

ClosedSet ==
    { "open", "print", "settings", "zoom_in", "zoom_out", "reset_zoom",
      "toggle_fullscreen", "close_tab", "learn_more", "license", "bugs",
      "contact" }
IdUniverse ==
    UNION { MenuIds(create_menu(os)) : os \in Platforms }
        \cup ClosedSet \cup { "unknown-id" }
RouterCases == { id \in IdUniverse : MenuRoute(id).kind # "none" }

\* C10: the identifiers of the installed menu, the identifiers the router
\* has a case for, and the closed set are the same set.
C10_MenuMatchesRouter ==
    menu # << >> =>
        /\ MenuIds(menu) = RouterCases
        /\ RouterCases = ClosedSet

\* C10 witness: a menu selection was routed to its external link.
C10_Witness ==
    /\ pc = "running"
    /\ sent = << Opened("mailto:your-email@example.com") >>

C12_BytesOnlyIfValid ==
    [][ ( reply' # reply /\ reply'.cmd = "read_pdf_file" ) =>
          LET r == reply'.result
              p == reply'.path
          IN  /\ r.tag \in { "Ok", "Err" }
              /\ r.tag = "Ok" =>
                     /\ r.error = ""
                     /\ exists(p, fs)
                     /\ extension(p) \in { Some(PDF), Some(XDP), Some(FDF),
                                           Some(XFDF) }
                     /\ r.bytes = Content(Resolve(p))
              /\ r.tag = "Err" =>
                     /\ r.bytes = << >>
                     /\ r.error \in { NotFound, UnsupportedType, IoError }
              /\ extension(p) = Some(<< "P", "D", "F" >>) =>
                     r.tag = "Err" ]_vars

\* C12 witness: the bytes of the existing a.pdf were returned.
C12_Witness ==
    /\ reply.cmd = "read_pdf_file"
    /\ reply.path = A_PDF
    /\ reply.result = Ok(<< 37, 80, 68, 70 >>)

\* C16: a path that does not exist and has an allow-listed extension is
\* answered with NotFound, without bytes.
C16_MissingIsNotFound ==
    [][ ( /\ reply' # reply
          /\ reply'.cmd = "read_pdf_file"
          /\ ~exists(reply'.path, fs)
          /\ ~BadExtension(reply'.path) )
        => /\ reply'.result.tag = "Err"
           /\ reply'.result.error = NotFound
           /\ reply'.result.bytes = << >> ]_vars

\* C16 witness: the missing e.xfdf was answered with NotFound.
C16_Witness ==
    /\ reply.cmd = "read_pdf_file"
    /\ reply.path = E_XFDF
    /\ E_XFDF \notin fs
    /\ reply.result = Err(NotFound)

\* What the two path commands are to answer on the paths tried.
ExpectedName(p) ==
    CASE p = A_PDF     -> << "a", ".", "p", "d", "f" >>
      [] p = REL_A     -> << "a", ".", "p", "d", "f" >>
      [] p = DOT_A     -> << "a", ".", "p", "d", "f" >>
      [] p = DOT_REL   -> << "a", ".", "p", "d", "f" >>
      [] p = DEEP      -> << "d", "o", "c", ".", "p", "d", "f" >>
      [] p = DIR_SLASH -> << "d" >>
      [] p = NOEXT     -> << "n" >>
      [] OTHER         -> << "U", "n", "k", "n", "o", "w", "n" >>
ExpectedDirectory(p) ==
    CASE p = A_PDF     -> << "/", "d" >>
      [] p = DOT_A     -> << "/", "d" >>
      [] p = NOEXT     -> << "/", "d" >>
      [] p = DEEP      -> << "/", "a", "/", "b" >>
      [] p = DIR_SLASH -> << "/" >>
      [] p = DOT_REL   -> << "." >>
      [] OTHER         -> << >>

\* C17: get_file_name answers with the last segment of the path, or with
\* "Unknown" when there is none (the root, the empty path, ".."), and
\* get_file_directory with the parent directory, or with the empty string
\* when there is none; a bare file name has the empty string as directory.
C17_NameAndDirectory ==
    /\ reply.cmd = "get_file_name" =>
           /\ reply.result = Str(ExpectedName(reply.path))
           /\ \A i \in 1..Len(reply.result.bytes) :
                  reply.result.bytes[i] # "/"
    /\ reply.cmd = "get_file_directory" =>
           /\ reply.result = Str(ExpectedDirectory(reply.path))
           /\ reply.result.bytes
                  = SubSeq(reply.path, 1, Len(reply.result.bytes))

\* C17 witness: the directory of the bare file name a.pdf is the empty
\* string.
C17_Witness ==
    /\ reply.cmd = "get_file_directory"
    /\ reply.path = REL_A
    /\ reply.result = Str(<< >>)

\* C14: launch-argument processing with no file argument, or with no
\* argument that canonicalizes and exists, emits no cli-open-files event,
\* produces no request, and goes on to show the window.
C14_NoSurvivorNoRequest ==
    [][ ( pc = "cli" /\ pc' # "cli" /\ Survivors = << >> ) =>
            /\ requests' = requests
            /\ requests = << >>
            /\ sent' = << >>
            /\ pc' = "show" ]_vars

\* C14 witness: arguments were given, none survived, and processing ended
\* without a request or an emit call.
C14_Witness ==
    /\ pc = "show"
    /\ cli.files # << >>
    /\ Survivors = << >>
    /\ requests = << >>
    /\ sent = << >>

\* The event each forwarding item of the menu stands for.
ForwardedEvent(id) ==
    CASE id = "open"              -> "menu-open"
      [] id = "print"             -> "menu-print"
      [] id = "zoom_in"           -> "menu-zoom-in"
      [] id = "zoom_out"          -> "menu-zoom-out"
      [] id = "reset_zoom"        -> "menu-reset-zoom"
      [] id = "toggle_fullscreen" -> "menu-toggle-fullscreen"
      [] id = "close_tab"         -> "menu-close-tab"
ForwardingIds ==
    { "open", "print", "zoom_in", "zoom_out", "reset_zoom",
      "toggle_fullscreen", "close_tab" }

C13_WitnessNoMain ==
    /\ dispatched = "zoom_in"
    /\ windows["main"] = 0
    /\ sent = << >>

\* C15: handling an identifier the router has no case for changes nothing
\* but the record of the identifier handled: no emit call, no URL opened,
\* no window created or focused, the menu as it was, the application
\* running.
C15_UnknownIsNoOp ==
    [][ \A id \in UnknownIds :
            handle_menu_event(id) =>
                /\ sent' = << >>
                /\ UNCHANGED << windows, osPc, osResult, menu, pc, requests,
                                reply, shown, listener, fs >> ]_vars

\* C15 witness: "unknown-id" was handled while the settings window was
\* open, and nothing was emitted or opened.
C15_Witness ==
    /\ dispatched = "unknown-id"
    /\ sent = << >>
    /\ pc = "running"
    /\ windows["settings"] = 1

\* C18: open_settings that finds no main window ends with "Main window not
\* found" and leaves the windows as they are; building from a state with
\* the main window and without a settings window either adds exactly one
\* settings window or fails in the toolkit and adds none; a settings window
\* only ever appears while the main window, its parent, exists.
C18_SettingsNeedsMain ==
    [][ /\ \A c \in Callers :
              ( open_settings_main(c) /\ windows["main"] = 0 ) =>
                  /\ osResult'[c] = "err_main"
                  /\ osPc'[c] = "idle"
                  /\ windows' = windows
        /\ \A c \in Callers :
              ( open_settings_build(c) /\ windows["main"] > 0
                  /\ windows["settings"] = 0 ) =>
                  \/ /\ windows' = [windows EXCEPT !["settings"] = 1]
                     /\ osResult'[c] = "created"
                  \/ /\ windows' = windows
                     /\ osResult'[c] = "err_build"
        /\ windows'["settings"] > windows["settings"] =>
              /\ windows["main"] > 0
              /\ windows["settings"] = 0
              /\ windows'["main"] = windows["main"] ]_vars

\* C18 witness: the command invoked by the presentation layer found no
\* settings window, the main window went away, and the command failed
\* without creating a window.
C18_Witness ==
    /\ osResult["invoke"] = "err_main"
    /\ osPc["invoke"] = "idle"
    /\ windows["main"] = 0
    /\ windows["settings"] = 0
C18_WitnessCreated ==
    /\ osResult["invoke"] = "created"
    /\ windows["settings"] = 1
    /\ windows["main"] = 1

\* C19: while the menu handler is inside open_settings, and when it has
\* come back from it with whatever outcome, the application is running and
\* the handler has made no emit call; handling "settings" never emits.
C19_SettingsFailureContained ==
    [][ /\ handle_menu_event("settings") =>
              ( sent' = << >> /\ pc' = "running" )
        /\ \A c \in { "menu" } :
              ( open_settings_main(c) \/ open_settings_build(c) ) =>
                  /\ sent' = << >>
                  /\ pc' = "running"
                  /\ osPc'[c] \in { "build", "idle" }
                  /\ osPc'[c] = "idle" =>
                         osResult'[c] \in { "created", "err_main",
                                            "err_build" } ]_vars

\* C19 witness: "settings" was chosen from the menu with the main window
\* closed; open_settings failed, the handler returned and emitted nothing.
C19_Witness ==
    /\ dispatched = "settings"
    /\ osResult["menu"] = "err_main"
    /\ osPc["menu"] = "idle"
    /\ pc = "running"
    /\ sent = << >>
C19_WitnessFocus ==
    /\ dispatched = "settings"
    /\ osResult["menu"] = "err_focus"
    /\ pc = "running"
C19_WitnessBuild ==
    /\ dispatched = "settings"
    /\ osResult["menu"] = "err_build"
    /\ pc = "running"

\* Two menus differ at most in the enabled flag of the action item "print".
OnlyPrintFlagDiffers(m, n) ==
    /\ Len(n) = Len(m)
    /\ \A i \in 1..Len(m) :
          /\ n[i].text = m[i].text
          /\ n[i].enabled = m[i].enabled
          /\ Len(n[i].items) = Len(m[i].items)
          /\ \A j \in 1..Len(m[i].items) :
                \/ n[i].items[j] = m[i].items[j]
                \/ /\ m[i].items[j].kind = "item"
                   /\ m[i].items[j].id = "print"
                   /\ [n[i].items[j] EXCEPT !.enabled = m[i].items[j].enabled]
                          = m[i].items[j]
PrintEnabled(m) ==
    \A i \in 1..Len(m) : \A j \in 1..Len(m[i].items) :
        m[i].items[j].id = "print" => m[i].items[j].enabled

\* C20: set_print_enabled leaves the windows and everything else but the
\* menu alone, changes at most the enabled flag of "print", and changes
\* nothing when no menu is installed; apart from the installation of the
\* menu at startup, a step that changes the menu is a step of
\* set_print_enabled.
C20_OnlyPrintFlag ==
    [][ /\ \A e \in BOOLEAN :
              set_print_enabled(e) =>
                  /\ OnlyPrintFlagDiffers(menu, menu')
                  /\ menu = << >> => menu' = << >>
                  /\ menu' # menu => PrintEnabled(menu') = e
                  /\ UNCHANGED << windows, osPc, osResult, sent, requests,
                                  pc, shown, dispatched >>
        /\ menu' # menu =>
              \/ menu = << >> /\ pc = "menu"
              \/ /\ reply'.cmd = "set_print_enabled"
                 /\ OnlyPrintFlagDiffers(menu, menu')
                 /\ dispatched' = dispatched
                 /\ osPc' = osPc
                 /\ windows' = windows ]_vars

\* C20 witness: print was disabled by the command, with both windows open.
C20_Witness ==
    /\ menu # << >>
    /\ ~PrintEnabled(menu)
    /\ reply.cmd = "set_print_enabled"
    /\ windows["main"] = 1
    /\ windows["settings"] = 1
C20_WitnessNoMenu ==
    /\ menu = << >>
    /\ reply.cmd = "set_print_enabled"

====
